---- MODULE Spec2Model ----
(***************************************************************************)
(* Model of the sentence-level text-to-speech engine (src/lib/tts-engine.ts)*)
(* driving the browser's speech synthesis provider.  The engine's fields   *)
(* and the provider's utterance queue are the state; every public method   *)
(* of TTSEngine and every utterance callback is one action.                *)
(***************************************************************************)
EXTENDS Integers, Sequences, FiniteSets, TLC

\* ---------------------------------------------------------------- bounds
MaxTextLen == 3     \* longest text handed to play()
MaxStale == 2       \* most utterances the provider holds when a command cancels
NumChapters == 3    \* chapters of the book the reader shows
MaxTimers == 1      \* most deferred play() calls pending when the user acts
MaxReaderStale == 1 \* most utterances the provider holds when the reader's user acts
MaxSegmentLen == 4  \* longest text segmented on its own
MaxParamStale == 0  \* most utterances the provider holds when play() follows a parameter change

\* --------------------------------------------------------------- alphabet
\* A text is a sequence of characters: a letter, a sentence terminator, a blank.
Alphabet == {"a", ".", " "}

IsPunct(c) == c \in {".", "!", "?"}

IsSpace(c) == c = " "

RECURSIVE SeqsUpTo(_)
SeqsUpTo(n) ==
  IF n = 0 THEN {<<>>}
  ELSE LET shorter == SeqsUpTo(n - 1)
       IN shorter \cup {Append(t, c) : t \in {u \in shorter : Len(u) = n - 1}, c \in Alphabet}

Texts == SeqsUpTo(MaxTextLen)

\* ------------------------------------------------------ splitIntoSentences
RECURSIVE TrimLeft(_)
TrimLeft(t) == IF t # <<>> /\ IsSpace(Head(t)) THEN TrimLeft(Tail(t)) ELSE t

RECURSIVE TrimRight(_)
TrimRight(t) ==
  IF t # <<>> /\ IsSpace(t[Len(t)]) THEN TrimRight(SubSeq(t, 1, Len(t) - 1)) ELSE t

\* String.prototype.trim that leaves trailing whitespace.
Trim_LeftOnly(t) == TrimLeft(t)

\* String.prototype.trim
Trim(t) == TrimRight(TrimLeft(t))

\* Greedy run of characters satisfying a class, from position p (1-based):
\* the first position after the run.
RECURSIVE RunEnd(_, _, _)
RunEnd(t, p, cls) ==
  IF p <= Len(t) /\ ((cls = "nonpunct" /\ ~IsPunct(t[p]))
                      \/ (cls = "punct" /\ IsPunct(t[p]))
                      \/ (cls = "space" /\ IsSpace(t[p])))
  THEN RunEnd(t, p + 1, cls) ELSE p

\* One match of /[^.!?]*[.!?]+[\s]*/ anchored at p: the position after the
\* match, or 0 when the text holds no terminator from p on.
MatchEnd(t, p) ==
  LET q == RunEnd(t, p, "nonpunct")
      r == RunEnd(t, q, "punct")
  IN IF r = q THEN 0 ELSE RunEnd(t, r, "space")

\* text.match(/[^.!?]*[.!?]+[\s]*/g): the successive matches from p on.
RECURSIVE RawMatches(_, _)
RawMatches(t, p) ==
  IF p > Len(t) THEN <<>>
  ELSE LET e == MatchEnd(t, p)
       IN IF e = 0 THEN <<>>
          ELSE <<SubSeq(t, p, e - 1)>> \o RawMatches(t, e)

RECURSIVE JoinedLen(_)
JoinedLen(raw) == IF raw = <<>> THEN 0 ELSE Len(Head(raw)) + JoinedLen(Tail(raw))

RECURSIVE TrimNonEmpty(_)
TrimNonEmpty(raw) ==
  IF raw = <<>> THEN <<>>
  ELSE LET s == Trim(Head(raw))
       IN (IF s = <<>> THEN <<>> ELSE <<s>>) \o TrimNonEmpty(Tail(raw))

splitIntoSentences(text) ==
  IF Trim(text) = <<>> THEN <<>>
  ELSE LET raw == RawMatches(text, 1)
       IN IF raw = <<>> THEN <<Trim(text)>>
          ELSE LET remainder == Trim(SubSeq(text, JoinedLen(raw) + 1, Len(text)))
                   sents == TrimNonEmpty(raw)
               IN IF remainder # <<>> THEN Append(sents, remainder) ELSE sents

\* splitIntoSentences over the texts play() is given, tabulated once.
SplitTable == [t \in Texts |-> splitIntoSentences(t)]

\* ------------------------------------------------------------------ state
VARIABLES
  synth,              \* TRUE iff this.synth is set (window.speechSynthesis exists)
  sentences,          \* this.sentences
  currentIndex,       \* this.currentIndex (0-based)
  isPlaying,          \* this._isPlaying
  isPaused,           \* this._isPaused
  currentUtterance,   \* this.currentUtterance: <<>> for null, <<i>> for the utterance of sentence i
  queue,              \* provider: utterances submitted and neither ended, errored nor cancelled
  stale,              \* provider: cancelled utterances whose callbacks are still to be delivered
  staleSpoken,        \* provider: how many of the stale utterances were cut off while being spoken
  synthPaused,        \* provider: speechSynthesis.paused
  last,               \* the operation or callback that ran last, and what it did
  pure,               \* TRUE iff no command but play() ran since the last play()
  endsSincePlay,      \* end callbacks delivered since the last play(), while pure
  onEndCount,         \* onEnd emissions since the last play() (2 stands for "more than one")
  unsupportedCount,   \* 'Speech synthesis not supported' errors emitted so far (2: more than one)
  book,               \* ReaderAudioBar: chapters[i].content, <<>> when no reader is mounted
  ttsIsPlaying,       \* useTTS: isPlaying state
  ttsIsPaused,        \* useTTS: isPaused state
  ttsPosition,        \* useTTS: currentPosition state
  currentChapterIndex, \* ImmersiveReader: currentChapterIndex state (0-based)
  autoAdvanceRef,     \* ReaderAudioBar: autoAdvanceRef.current
  timers,             \* ReaderAudioBar: pending setTimeout callbacks, each the chapter it will play
  advanceEffectDue,   \* the effect on [tts.isPlaying, tts.isPaused] is to run
  stopEffectDue,      \* the effect on [currentChapterIndex] is to run
  seg,                \* splitIntoSentences called on its own: argument, returned or not, result
  rate,               \* this._rate, a number in tenths
  pitch,              \* this._pitch, a number in tenths
  selectedVoice,      \* this.selectedVoice: <<>> for null, <<v>> for the voice v
  voices,             \* provider: synth.getVoices(), in the provider's order
  home,               \* Home page: its view, isListening and the fields of its own engine
  owners              \* where two engines run: the engine that submitted each utterance of queue

engineVars == <<synth, sentences, currentIndex, isPlaying, isPaused, currentUtterance>>

providerVars == <<queue, stale, staleSpoken, synthPaused>>

historyVars == <<last, pure, endsSincePlay, onEndCount, unsupportedCount>>

homeVars == <<home, owners>>

paramVars == <<rate, pitch, selectedVoice, voices>>

countVars == <<pure, endsSincePlay, onEndCount, unsupportedCount>>

readerVars == <<book, ttsIsPlaying, ttsIsPaused, ttsPosition, currentChapterIndex,
                autoAdvanceRef, timers, advanceEffectDue, stopEffectDue>>

vars == <<synth, sentences, currentIndex, isPlaying, isPaused, currentUtterance,
          queue, stale, staleSpoken, synthPaused, last, pure, endsSincePlay, onEndCount,
          unsupportedCount, book, ttsIsPlaying, ttsIsPaused, ttsPosition,
          currentChapterIndex, autoAdvanceRef, timers, advanceEffectDue, stopEffectDue,
          seg, rate, pitch, selectedVoice, voices, home, owners>>

Max(a, b) == IF a >= b THEN a ELSE b

Min(a, b) == IF a <= b THEN a ELSE b

\* A callback emitted to the engine's client (TTSCallbacks).
Ev(name, idx, reason) == [name |-> name, idx |-> idx, reason |-> reason]

\* The engine and the provider as one record, with what the running handler
\* has done so far: callbacks emitted and provider calls made.
Cur ==
  [synth |-> synth, sentences |-> sentences, currentIndex |-> currentIndex,
   isPlaying |-> isPlaying, isPaused |-> isPaused, currentUtterance |-> currentUtterance,
   queue |-> queue, stale |-> stale, staleSpoken |-> staleSpoken,
   synthPaused |-> synthPaused,
   rate |-> rate, pitch |-> pitch, selectedVoice |-> selectedVoice, voices |-> voices,
   ev |-> <<>>, speaks |-> 0, cancels |-> 0, pauses |-> 0, resumes |-> 0, threw |-> FALSE,
   reason |-> ""]

emit(s, e) == [s EXCEPT !.ev = Append(@, e)]

\* The message of play() when this.synth is null.
Unsupported == "Speech synthesis not supported"

\* ------------------------------------------------------------- numbers
\* Rate and pitch in tenths; a JavaScript number is a finite value or NaN.
Num(v) == [nan |-> FALSE, v |-> v]

NaN == [nan |-> TRUE, v |-> 0]

\* Math.min and Math.max of two arguments: NaN if either is NaN.
mathMin(a, b) == IF a.nan \/ b.nan THEN NaN ELSE Num(Min(a.v, b.v))

mathMax(a, b) == IF a.nan \/ b.nan THEN NaN ELSE Num(Max(a.v, b.v))

DefaultParam == 10  \* _rate = 1, _pitch = 1
MinRate == 5        \* 0.5
MaxRate == 30       \* 3
MinPitch == 0
MaxPitch == 20      \* 2

\* ------------------------------------------------ provider (SpeechSynthesis)
\* cancel(): every utterance leaves the queue; its end or error event is
\* dispatched later, as a task of its own.  The paused flag is left alone.
synthCancel(s) ==
  [s EXCEPT !.stale = @ + Len(s.queue),
            !.staleSpoken = @ + (IF s.queue # <<>> /\ s.queue[1].st = "speaking" THEN 1 ELSE 0),
            !.queue = <<>>, !.cancels = @ + 1]

\* speak(utterance): the utterance joins the end of the queue.
synthSpeak(s, u) == [s EXCEPT !.queue = Append(@, u), !.speaks = @ + 1]

synthPause(s) == [s EXCEPT !.synthPaused = TRUE, !.pauses = @ + 1]

synthResume(s) == [s EXCEPT !.synthPaused = FALSE, !.resumes = @ + 1]

\* ------------------------------------------------------------- TTSEngine
\* A name or a language tag is a sequence of parts: "en-US" is <<"en", "US">>.
startsWith(t, p) == Len(p) <= Len(t) /\ SubSeq(t, 1, Len(p)) = p

\* Array.prototype.find over the voices at the positions in hits: <<>> for undefined.
find(vs, hits) ==
  IF hits = {} THEN <<>>
  ELSE <<vs[CHOOSE i \in hits : \A j \in hits : i <= j]>>

setVoice(s, nameOrLang) ==
  LET vs == IF s.synth THEN s.voices ELSE <<>>
      byName == find(vs, {i \in 1..Len(vs) : vs[i].name = nameOrLang})
      byLang == find(vs, {i \in 1..Len(vs) : startsWith(vs[i].lang, nameOrLang)})
      match == IF byName # <<>> THEN byName ELSE byLang
  IN IF match # <<>> THEN [s EXCEPT !.selectedVoice = match] ELSE s

setVoiceByObject(s, voice) == [s EXCEPT !.selectedVoice = <<voice>>]

\* setRate() that restarts the current sentence with the new rate.
setRate_Restart(s, r) ==
  LET s1 == [s EXCEPT !.rate = mathMax(Num(MinRate), mathMin(Num(MaxRate), r))]
  IN IF s1.isPlaying /\ s1.currentIndex < Len(s1.sentences)
     THEN synthSpeak([synthCancel(s1) EXCEPT !.currentUtterance = <<s1.currentIndex>>],
                     [idx |-> s1.currentIndex, text |-> s1.sentences[s1.currentIndex + 1],
                      st |-> "queued", rate |-> s1.rate, pitch |-> s1.pitch,
                      voice |-> s1.selectedVoice])
     ELSE s1

setRate(s, r) == [s EXCEPT !.rate = mathMax(Num(MinRate), mathMin(Num(MaxRate), r))]

setPitch(s, p) == [s EXCEPT !.pitch = mathMax(Num(MinPitch), mathMin(Num(MaxPitch), p))]

stop(s) ==
  IF ~s.synth THEN s
  ELSE [synthCancel(s) EXCEPT !.isPlaying = FALSE, !.isPaused = FALSE,
                              !.currentUtterance = <<>>]

\* speakCurrent() that leaves _isPlaying set at the end of the text.
speakCurrent_StillPlaying(s) ==
  IF ~s.synth \/ s.currentIndex >= Len(s.sentences)
  THEN emit(s, Ev("onEnd", 0, ""))
  ELSE synthSpeak([s EXCEPT !.currentUtterance = <<s.currentIndex>>],
                  [idx |-> s.currentIndex, text |-> s.sentences[s.currentIndex + 1],
                   st |-> "queued", rate |-> s.rate, pitch |-> s.pitch,
                   voice |-> s.selectedVoice])

speakCurrent(s) ==
  IF ~s.synth \/ s.currentIndex >= Len(s.sentences)
  THEN emit([s EXCEPT !.isPlaying = FALSE], Ev("onEnd", 0, ""))
  ELSE synthSpeak([s EXCEPT !.currentUtterance = <<s.currentIndex>>],
                  [idx |-> s.currentIndex, text |-> s.sentences[s.currentIndex + 1],
                   st |-> "queued", rate |-> s.rate, pitch |-> s.pitch,
                   voice |-> s.selectedVoice])

\* play() without the early return on an empty sentence list.
play_NoEmptyCheck(s, text, startIndex) ==
  IF ~s.synth THEN emit(s, Ev("onError", 0, Unsupported))
  ELSE LET s1 == stop(s)
           s2 == [s1 EXCEPT !.sentences = SplitTable[text]]
       IN speakCurrent([s2 EXCEPT
            !.currentIndex = Max(0, Min(startIndex, Len(s2.sentences) - 1)),
            !.isPlaying = TRUE, !.isPaused = FALSE])

\* play() that forgets this.stop().
play_NoStop(s, text, startIndex) ==
  IF ~s.synth THEN emit(s, Ev("onError", 0, Unsupported))
  ELSE LET s2 == [s EXCEPT !.sentences = SplitTable[text]]
       IN IF Len(s2.sentences) = 0 THEN s2
          ELSE speakCurrent([s2 EXCEPT
                 !.currentIndex = Max(0, Min(startIndex, Len(s2.sentences) - 1)),
                 !.isPlaying = TRUE, !.isPaused = FALSE])

play(s, text, startIndex) ==
  IF ~s.synth THEN emit(s, Ev("onError", 0, Unsupported))
  ELSE LET s1 == stop(s)
           s2 == [s1 EXCEPT !.sentences = SplitTable[text]]
       IN IF Len(s2.sentences) = 0 THEN s2
          ELSE speakCurrent([s2 EXCEPT
                 !.currentIndex = Max(0, Min(startIndex, Len(s2.sentences) - 1)),
                 !.isPlaying = TRUE, !.isPaused = FALSE])

pause(s) ==
  IF ~s.synth \/ ~s.isPlaying THEN s
  ELSE emit([synthPause(s) EXCEPT !.isPaused = TRUE], Ev("onPause", 0, ""))

resume(s) ==
  IF ~s.synth \/ ~s.isPaused THEN s
  ELSE emit([synthResume(s) EXCEPT !.isPaused = FALSE], Ev("onResume", 0, ""))

\* nextSentence() that forgets this.synth.cancel().
nextSentence_NoCancel(s) ==
  IF s.currentIndex < Len(s.sentences) - 1
  THEN speakCurrent([s EXCEPT !.currentIndex = @ + 1])
  ELSE s

\* nextSentence() guarded by currentIndex < sentences.length.
nextSentence_OffByOne(s) ==
  IF s.currentIndex < Len(s.sentences)
  THEN speakCurrent([(IF s.synth THEN synthCancel(s) ELSE s) EXCEPT !.currentIndex = @ + 1])
  ELSE s

nextSentence(s) ==
  IF s.currentIndex < Len(s.sentences) - 1
  THEN speakCurrent([(IF s.synth THEN synthCancel(s) ELSE s) EXCEPT !.currentIndex = @ + 1])
  ELSE s

previousSentence(s) ==
  IF s.currentIndex > 0
  THEN speakCurrent([(IF s.synth THEN synthCancel(s) ELSE s) EXCEPT !.currentIndex = @ - 1])
  ELSE s

\* utterance.onstart
onstart(s) ==
  emit(emit(s, Ev("onStart", s.currentIndex, "")), Ev("onSentenceChange", s.currentIndex, ""))

\* utterance.onboundary: reads this.sentences[this.currentIndex]; outside the
\* queue that is undefined and .slice throws.
onboundary(s, name) ==
  IF name = "word"
  THEN IF s.currentIndex < Len(s.sentences)
       THEN emit(s, Ev("onBoundary", 0, ""))
       ELSE [s EXCEPT !.threw = TRUE]
  ELSE s

\* onend that advances whether or not the engine is playing.
onend_NoPlayingCheck(s) ==
  IF ~s.isPaused
  THEN speakCurrent([s EXCEPT !.currentIndex = @ + 1])
  ELSE s

\* onend that advances while paused.
onend_NoPausedCheck(s) ==
  IF s.isPlaying
  THEN speakCurrent([s EXCEPT !.currentIndex = @ + 1])
  ELSE s

\* utterance.onend
onend(s) ==
  IF s.isPlaying /\ ~s.isPaused
  THEN speakCurrent([s EXCEPT !.currentIndex = @ + 1])
  ELSE s

\* onerror that submits the current sentence again.
onerror_Retry(s, reason) ==
  IF reason = "canceled" THEN s
  ELSE speakCurrent(emit(s, Ev("onError", 0, reason)))

\* utterance.onerror
onerror(s, reason) ==
  IF reason = "canceled" THEN s ELSE emit(s, Ev("onError", 0, reason))

\* ---------------------------------------------------------------- actions
Commands == {"play", "pause", "resume", "stop", "nextSentence", "previousSentence"}

CountOnEnd(ev) == Cardinality({i \in 1..Len(ev) : ev[i].name = "onEnd"})

CountUnsupported(ev) ==
  Cardinality({i \in 1..Len(ev) : ev[i].name = "onError" /\ ev[i].reason = Unsupported})

\* The handler `op` ran and left the engine and the provider as s.
ApplyEngine(s, op, isStale, text) ==
  /\ synth' = s.synth
  /\ sentences' = s.sentences
  /\ currentIndex' = s.currentIndex
  /\ isPlaying' = s.isPlaying
  /\ isPaused' = s.isPaused
  /\ currentUtterance' = s.currentUtterance
  /\ queue' = s.queue
  /\ stale' = s.stale
  /\ staleSpoken' = s.staleSpoken
  /\ synthPaused' = s.synthPaused
  /\ rate' = s.rate
  /\ pitch' = s.pitch
  /\ selectedVoice' = s.selectedVoice
  /\ voices' = s.voices
  /\ last' = [op |-> op, stale |-> isStale, text |-> text, ev |-> s.ev,
              speaks |-> s.speaks, cancels |-> s.cancels, pauses |-> s.pauses,
              resumes |-> s.resumes, threw |-> s.threw, reason |-> s.reason]

\* What the run has shown so far, counted for an engine used on its own.
ApplyHistory(s, op) ==
  /\ pure' = IF op = "play" THEN TRUE ELSE IF op \in Commands THEN FALSE ELSE pure
  /\ endsSincePlay' = IF op \in Commands THEN 0
                      ELSE IF pure /\ op = "end" THEN endsSincePlay + 1
                      ELSE endsSincePlay
  /\ onEndCount' = IF op = "play" THEN CountOnEnd(s.ev)
                   ELSE Min(2, onEndCount + CountOnEnd(s.ev))
  /\ unsupportedCount' = Min(2, unsupportedCount + CountUnsupported(s.ev))

\* The same for an engine used on its own, with no reader around it.
Apply(s, op, isStale, text) ==
  /\ ApplyEngine(s, op, isStale, text)
  /\ ApplyHistory(s, op)
  /\ UNCHANGED <<readerVars, seg, homeVars>>

\* A command that cancels and submits is taken only while the provider holds
\* at most MaxStale utterances, cancelled ones included.
Room == stale + Len(queue) <= MaxStale

defaultPosition == [sentenceIndex |-> 0, totalSentences |-> 0, charIndex |-> 0]

EngineInit ==
  /\ synth \in BOOLEAN
  /\ sentences = <<>>
  /\ currentIndex = 0
  /\ isPlaying = FALSE
  /\ isPaused = FALSE
  /\ currentUtterance = <<>>
  /\ rate = Num(DefaultParam)
  /\ pitch = Num(DefaultParam)
  /\ selectedVoice = <<>>
  /\ queue = <<>>
  /\ stale = 0
  /\ staleSpoken = 0
  /\ synthPaused = FALSE
  /\ last = [op |-> "new", stale |-> FALSE, text |-> <<>>, ev |-> <<>>,
             speaks |-> 0, cancels |-> 0, pauses |-> 0, resumes |-> 0, threw |-> FALSE,
             reason |-> ""]
  /\ pure = FALSE
  /\ endsSincePlay = 0
  /\ onEndCount = 0
  /\ unsupportedCount = 0
  /\ home = [view |-> "detail", isListening |-> FALSE, sentences |-> <<>>, currentIndex |-> 0,
             isPlaying |-> FALSE, isPaused |-> FALSE, currentUtterance |-> <<>>]
  /\ owners = <<>>

\* useTTS and ReaderAudioBar after their first render and mount effects.
ReaderInit ==
  /\ ttsIsPlaying = FALSE
  /\ ttsIsPaused = FALSE
  /\ ttsPosition = defaultPosition
  /\ currentChapterIndex = 0
  /\ autoAdvanceRef = TRUE
  /\ timers = <<>>
  /\ advanceEffectDue = FALSE
  /\ stopEffectDue = FALSE

\* No call of splitIntoSentences on its own.
NoSegment == [text |-> <<>>, done |-> FALSE, out |-> <<>>]

Init ==
  /\ EngineInit
  /\ book = <<>>
  /\ ReaderInit
  /\ seg = NoSegment
  /\ voices = <<>>

\* The callers (useTTS) pass the text only: startIndex takes its default 0.
Play == \E text \in Texts : Room /\ Apply(play(Cur, text, 0), "play", FALSE, text)

Pause == Apply(pause(Cur), "pause", FALSE, <<>>)

Resume == Apply(resume(Cur), "resume", FALSE, <<>>)

Stop == Apply(stop(Cur), "stop", FALSE, <<>>)

NextSentence == Room /\ Apply(nextSentence(Cur), "nextSentence", FALSE, <<>>)

PreviousSentence == Room /\ Apply(previousSentence(Cur), "previousSentence", FALSE, <<>>)

\* Reasons the provider gives in an error event.
ErrorReasons == {"canceled", "interrupted", "synthesis-failed"}

\* The reasons of an error event that reports a cancel() call: 'canceled'
\* (removed before it began) and 'interrupted' (cut off while being spoken).
CancelReasons == {"canceled", "interrupted"}

BoundaryNames == {"word", "sentence"}

\* The provider starts rendering the utterance at the head of its queue.
ProviderStart ==
  /\ queue # <<>> /\ queue[1].st = "queued" /\ ~synthPaused
  /\ Apply(onstart([Cur EXCEPT !.queue[1].st = "speaking"]), "start", FALSE, <<>>)

ProviderBoundary ==
  /\ queue # <<>> /\ queue[1].st = "speaking" /\ ~synthPaused
  /\ \E name \in BoundaryNames : Apply(onboundary(Cur, name), "boundary", FALSE, <<>>)

\* The utterance being rendered completes; its end event may reach the engine
\* after a pause() issued in the meantime.
ProviderEnd ==
  /\ queue # <<>> /\ queue[1].st = "speaking"
  /\ Apply(onend([Cur EXCEPT !.queue = Tail(@)]), "end", FALSE, <<>>)

ProviderError ==
  /\ queue # <<>>
  /\ \E reason \in ErrorReasons :
       Apply(onerror([Cur EXCEPT !.queue = Tail(@), !.reason = reason], reason),
             "error", FALSE, <<>>)

\* Callbacks of an utterance the engine has cancelled.
StaleStart ==
  /\ stale > 0
  /\ Apply(onstart(Cur), "start", TRUE, <<>>)

\* Only an utterance that was being spoken has boundary events to deliver.
StaleBoundary ==
  /\ staleSpoken > 0
  /\ \E name \in BoundaryNames : Apply(onboundary(Cur, name), "boundary", TRUE, <<>>)

\* One stale utterance goes: one that was being spoken, or one that never began.
dropStale(s, spoken) ==
  [s EXCEPT !.stale = @ - 1, !.staleSpoken = @ - (IF spoken THEN 1 ELSE 0)]

HasStale(spoken) == IF spoken THEN staleSpoken > 0 ELSE stale > staleSpoken

StaleEnd ==
  \E spoken \in BOOLEAN :
    /\ HasStale(spoken)
    /\ Apply(onend(dropStale(Cur, spoken)), "end", TRUE, <<>>)

\* The error event of a cancelled utterance carries 'interrupted' if it was
\* being spoken and 'canceled' if it had not begun.
StaleError ==
  \E reason \in CancelReasons :
    /\ HasStale(reason = "interrupted")
    /\ Apply(onerror([dropStale(Cur, reason = "interrupted") EXCEPT !.reason = reason], reason),
             "error", TRUE, <<>>)

Next ==
  \/ Play
  \/ Pause
  \/ Resume
  \/ Stop
  \/ NextSentence
  \/ PreviousSentence
  \/ ProviderStart
  \/ ProviderBoundary
  \/ ProviderEnd
  \/ ProviderError
  \/ StaleStart
  \/ StaleBoundary
  \/ StaleEnd
  \/ StaleError

Spec == Init /\ [][Next]_vars

\* --------------------------------------------------------------- notions
EngineState == IF ~isPlaying THEN "Idle" ELSE IF isPaused THEN "Paused" ELSE "Playing"

\* getCurrentPosition()
getCurrentPosition ==
  [sentenceIndex |-> currentIndex, totalSentences |-> Len(sentences), charIndex |-> 0]

TypeOK ==
  /\ synth \in BOOLEAN
  /\ currentIndex \in 0..(MaxTextLen + 1)
  /\ isPlaying \in BOOLEAN /\ isPaused \in BOOLEAN
  /\ stale \in 0..(MaxStale + 1)
  /\ staleSpoken \in 0..stale
  /\ Len(queue) + stale <= MaxStale + 1
  /\ endsSincePlay \in 0..(MaxStale + MaxTextLen + 2)
  /\ onEndCount \in 0..2
  /\ unsupportedCount \in 0..2

\* ----------------------------------------------------------------- claims
Callbacks == {"start", "boundary", "end", "error"}

\* C1: at most one utterance submitted by the engine is pending or rendering
\* in the provider at any time.
C1_OneUtteranceInFlight == Len(queue) <= 1

\* C2: a callback delivered for an utterance the engine has cancelled changes
\* neither sentenceIndex nor the Idle/Playing/Paused state, submits no
\* utterance and emits no onEnd.
C2_StaleCallbackIgnored ==
  [][last'.stale =>
       /\ currentIndex' = currentIndex
       /\ isPlaying' = isPlaying /\ isPaused' = isPaused
       /\ last'.speaks = 0
       /\ CountOnEnd(last'.ev) = 0]_vars

\* C3: after play(text) with n >= 2 sentences and no other command, the k-th
\* end event (k < n) leaves sentenceIndex = k and the engine Playing with no
\* onEnd emitted; from the n-th end event on the engine is Idle and onEnd has
\* been emitted exactly once.
C3_AutoAdvance ==
  (pure /\ synth /\ Len(sentences) >= 2) =>
     IF endsSincePlay < Len(sentences)
     THEN currentIndex = endsSincePlay /\ EngineState = "Playing" /\ onEndCount = 0
     ELSE EngineState = "Idle" /\ ~isPaused /\ onEndCount = 1

C3_Witness ==
  /\ pure /\ synth /\ Len(sentences) >= 2
  /\ last.op = "end" /\ endsSincePlay = Len(sentences)
  /\ EngineState = "Idle" /\ onEndCount = 1

\* C4: right after play(text) on an engine with a provider, totalSentences is
\* the length of splitIntoSentences(text); if that is >= 1 the provider holds
\* exactly the utterance of sentence 0 (all earlier ones cancelled),
\* sentenceIndex is 0 and the engine is Playing.
C4_PlayLoads ==
  (last.op = "play" /\ synth) =>
     LET segs == splitIntoSentences(last.text)
     IN /\ getCurrentPosition.totalSentences = Len(segs)
        /\ Len(segs) >= 1 =>
             /\ getCurrentPosition.sentenceIndex = 0
             /\ isPlaying /\ ~isPaused
             /\ last.cancels >= 1 /\ last.speaks = 1
             /\ Len(queue) = 1 /\ queue[1].idx = 0
             /\ queue[1].text = segs[1] /\ queue[1].st = "queued"

C4_Witness ==
  /\ last.op = "play" /\ synth /\ Len(sentences) >= 2
  /\ stale > 0 /\ Len(queue) = 1

\* C5: after stop() the engine is Idle and getCurrentPosition().totalSentences is 0.
C5_StopClears ==
  last.op = "stop" =>
     /\ ~isPlaying /\ ~isPaused
     /\ getCurrentPosition.totalSentences = 0

\* C6: with a queue and the target index in range, nextSentence() /
\* previousSentence() cancel the current utterance, move sentenceIndex by
\* exactly +1 / -1, submit the sentence at the new index and leave the
\* Idle/Playing/Paused state alone.
NavEffect ==
  /\ last'.cancels = 1 /\ last'.speaks = 1
  /\ stale' = stale + Len(queue)
  /\ Len(queue') = 1 /\ queue'[1].idx = currentIndex'
  /\ queue'[1].text = sentences[currentIndex' + 1] /\ queue'[1].st = "queued"
  /\ sentences' = sentences
  /\ isPlaying' = isPlaying /\ isPaused' = isPaused

C6_NavigationMoves ==
  [][/\ (last'.op = "nextSentence" /\ Len(sentences) > 0
           /\ currentIndex + 1 \in 0..(Len(sentences) - 1))
          => (currentIndex' = currentIndex + 1 /\ NavEffect)
     /\ (last'.op = "previousSentence" /\ Len(sentences) > 0
           /\ currentIndex - 1 \in 0..(Len(sentences) - 1))
          => (currentIndex' = currentIndex - 1 /\ NavEffect)]_vars

C6_Witness ==
  /\ last.op \in {"nextSentence", "previousSentence"}
  /\ last.speaks = 1 /\ last.cancels = 1
  /\ EngineState = "Paused" /\ stale > 0

\* C7: nextSentence() at the last sentence and previousSentence() at sentence
\* 0 call nothing on the provider, emit nothing and change nothing.
C7_InvalidNavigationIgnored ==
  [][((last'.op = "nextSentence" /\ currentIndex = Len(sentences) - 1)
        \/ (last'.op = "previousSentence" /\ currentIndex = 0))
      => /\ UNCHANGED <<engineVars, providerVars>>
         /\ last'.cancels = 0 /\ last'.speaks = 0
         /\ last'.ev = <<>>]_vars

C7_Witness ==
  /\ last.op = "nextSentence" /\ last.speaks = 0 /\ last.cancels = 0
  /\ Len(sentences) >= 1 /\ currentIndex = Len(sentences) - 1
  /\ EngineState = "Playing" /\ Len(queue) = 1

\* C8: while the engine is Idle, nextSentence() and previousSentence() submit
\* no utterance and do not change sentenceIndex.
C8_IdleNavigationIneffective ==
  [][(EngineState = "Idle" /\ last'.op \in {"nextSentence", "previousSentence"})
      => (last'.speaks = 0 /\ currentIndex' = currentIndex)]_vars

\* C9: pause() in Playing asks the provider to pause, makes the engine Paused
\* and emits onPause; in Idle or Paused it changes nothing, calls nothing and
\* emits nothing.
C9_PauseOnlyWhenPlaying ==
  [][last'.op = "pause" =>
       IF EngineState = "Playing" /\ synth
       THEN /\ last'.pauses = 1 /\ synthPaused'
            /\ isPlaying' /\ isPaused'
            /\ last'.ev = <<Ev("onPause", 0, "")>>
       ELSE /\ UNCHANGED <<engineVars, providerVars>>
            /\ last'.pauses = 0
            /\ last'.ev = <<>>]_vars

\* C10: pause() and resume() never change sentenceIndex or totalSentences,
\* and while the engine is Paused no provider callback changes sentenceIndex.
C10_PausePreservesPosition ==
  [][/\ last'.op \in {"pause", "resume"}
          => (currentIndex' = currentIndex /\ Len(sentences') = Len(sentences))
     /\ (EngineState = "Paused" /\ last'.op \in Callbacks)
          => currentIndex' = currentIndex]_vars

C10_Witness ==
  /\ last.op = "end" /\ EngineState = "Paused"
  /\ currentIndex + 1 < Len(sentences)

OnErrors(ev) == {i \in 1..Len(ev) : ev[i].name = "onError"}

\* C11: the cancellation event of an utterance the engine itself cancelled
\* never reaches onError.
C11_OwnCancellationSwallowed ==
  (last.op = "error" /\ last.stale /\ last.reason \in CancelReasons)
     => OnErrors(last.ev) = {}

\* C12: a cancellation event for the current utterance, which the engine did
\* not cancel, is forwarded through onError.
C12_ForeignCancellationForwarded ==
  (last.op = "error" /\ ~last.stale /\ last.reason \in CancelReasons)
     => last.ev = <<Ev("onError", 0, last.reason)>>

\* C13: a rendering error of the current utterance is emitted through onError
\* with the provider's reason; the engine submits nothing and sentenceIndex
\* and totalSentences stay as they were.
C13_RenderingErrorReported ==
  [][(last'.op = "error" /\ ~last'.stale /\ last'.reason \notin CancelReasons)
      => /\ last'.ev = <<Ev("onError", 0, last'.reason)>>
         /\ last'.speaks = 0
         /\ queue' = Tail(queue)
         /\ getCurrentPosition' = getCurrentPosition]_vars

C13_Witness ==
  /\ last.op = "error" /\ ~last.stale /\ last.reason = "synthesis-failed"
  /\ EngineState = "Playing" /\ queue = <<>>
  /\ currentIndex >= 1

\* C14: without a synthesis capability the unsupported-environment error is
\* emitted at most once, and the engine is Idle and has submitted nothing.
C14_UnsupportedReportedOnce ==
  ~synth => /\ unsupportedCount <= 1
            /\ EngineState = "Idle" /\ ~isPaused
            /\ queue = <<>> /\ stale = 0

\* C15 (as claimed): play(text) on an Idle engine with a text of zero
\* sentences leaves the engine Idle, emits no callback and submits nothing.
C15_EmptyPlayNoOp_Original ==
  [][(last'.op = "play" /\ EngineState = "Idle"
        /\ Len(splitIntoSentences(last'.text)) = 0)
      => /\ EngineState' = "Idle" /\ ~isPaused'
         /\ last'.ev = <<>>
         /\ last'.speaks = 0]_vars

\* C15 (amended): the same on an engine that has a synthesis provider.
C15_EmptyPlayNoOp ==
  [][(last'.op = "play" /\ synth /\ EngineState = "Idle"
        /\ Len(splitIntoSentences(last'.text)) = 0)
      => /\ EngineState' = "Idle" /\ ~isPaused'
         /\ last'.ev = <<>>
         /\ last'.speaks = 0]_vars

C15_Witness ==
  /\ last.op = "play" /\ synth /\ last.text = <<" ">>
  /\ last.ev = <<>> /\ last.speaks = 0
  /\ EngineState = "Idle" /\ sentences = <<>>

\* C16: while the engine is Playing or Paused, 0 <= sentenceIndex <
\* totalSentences and sentenceIndex is the index of the sentence submitted last.
C16_PositionWhilePlaying ==
  isPlaying =>
     /\ 0 <= getCurrentPosition.sentenceIndex
     /\ getCurrentPosition.sentenceIndex < getCurrentPosition.totalSentences
     /\ currentUtterance = <<getCurrentPosition.sentenceIndex>>
     /\ queue # <<>> => queue[Len(queue)].idx = getCurrentPosition.sentenceIndex

C16_Witness ==
  /\ EngineState = "Paused" /\ currentIndex >= 1
  /\ queue # <<>> /\ queue[1].st = "speaking" /\ queue[1].idx = currentIndex

\* C17: in every reachable state 0 <= sentenceIndex <= totalSentences.
C17_PositionConsistent ==
  /\ 0 <= getCurrentPosition.sentenceIndex
  /\ getCurrentPosition.sentenceIndex <= getCurrentPosition.totalSentences

\* ---------------------------------------------------------------------------
\* The reader: useTTS (one engine and its React state), ReaderAudioBar (the
\* chapter sequencer) and ImmersiveReader's current chapter.

\* Chapter contents: one sentence, two sentences.
ChapterTexts == {<<"a">>, <<".", "a">>}

Books == [1..NumChapters -> ChapterTexts]

\* chapters[i].content, i counted from 0 as in the code
content(i) == book[i + 1]

positionOf(s) ==
  [sentenceIndex |-> s.currentIndex, totalSentences |-> Len(s.sentences), charIndex |-> 0]

ttsState == [isPlaying |-> ttsIsPlaying, isPaused |-> ttsIsPaused, currentPosition |-> ttsPosition]

\* useTTS's engine callbacks, applied to the hook state h in the order the
\* engine emitted them; pos is what engine.getCurrentPosition() returns.
RECURSIVE ttsCallbacks(_, _, _)
ttsCallbacks(h, ev, pos) ==
  IF ev = <<>> THEN h
  ELSE LET e == Head(ev)
           h1 == CASE e.name = "onStart" ->
                        [h EXCEPT !.isPlaying = TRUE, !.isPaused = FALSE, !.currentPosition = pos]
                   [] e.name = "onEnd" ->
                        [h EXCEPT !.isPlaying = FALSE, !.isPaused = FALSE, !.currentPosition = pos]
                   [] e.name = "onPause" -> [h EXCEPT !.isPaused = TRUE]
                   [] e.name = "onResume" -> [h EXCEPT !.isPaused = FALSE]
                   [] e.name = "onSentenceChange" -> [h EXCEPT !.currentPosition = pos]
                   [] OTHER -> h
       IN ttsCallbacks(h1, Tail(ev), pos)

\* useTTS.stop after engine.stop(): setIsPlaying(false); setIsPaused(false)
ttsStop(h) == [h EXCEPT !.isPlaying = FALSE, !.isPaused = FALSE]

EffectsDue == advanceEffectDue \/ stopEffectDue

\* The user acts only on a rendered reader whose effects have run, and while at
\* most MaxTimers deferred calls are pending and the provider holds at most
\* MaxReaderStale utterances, cancelled ones included.
ReaderRoom == stale + Len(queue) <= MaxReaderStale

UserMayAct == ~EffectsDue /\ ReaderRoom /\ Len(timers) <= MaxTimers

ButtonsEnabled == ttsIsPlaying \/ ttsIsPaused

\* A reader step: the engine and provider become s, the hook state becomes h,
\* the selected chapter ch, the auto-advance flag auto and the pending timers
\* tm.  An effect is due after the step when one of its dependencies changed.
ReaderStep(s, op, isStale, h, ch, auto, tm) ==
  /\ ApplyEngine(s, op, isStale, <<>>)
  /\ UNCHANGED <<countVars, seg, homeVars>>
  /\ book' = book
  /\ ttsIsPlaying' = h.isPlaying
  /\ ttsIsPaused' = h.isPaused
  /\ ttsPosition' = h.currentPosition
  /\ currentChapterIndex' = ch
  /\ autoAdvanceRef' = auto
  /\ timers' = tm
  /\ advanceEffectDue' = ((advanceEffectDue /\ op # "advanceEffect")
                          \/ h.isPlaying # ttsIsPlaying \/ h.isPaused # ttsIsPaused)
  /\ stopEffectDue' = ((stopEffectDue /\ op # "stopEffect") \/ ch # currentChapterIndex)

\* A step that only calls the engine or delivers a provider event to it.
TtsStep(s, op, isStale) ==
  ReaderStep(s, op, isStale, ttsCallbacks(ttsState, s.ev, positionOf(s)),
             currentChapterIndex, autoAdvanceRef, timers)

handlePlayPause ==
  /\ UserMayAct
  /\ IF ttsIsPlaying /\ ~ttsIsPaused THEN TtsStep(pause(Cur), "handlePlayPause", FALSE)
     ELSE IF ttsIsPaused THEN TtsStep(resume(Cur), "handlePlayPause", FALSE)
     ELSE LET s == play(Cur, content(currentChapterIndex), 0)
          IN ReaderStep(s, "handlePlayPause", FALSE,
                        ttsCallbacks(ttsState, s.ev, positionOf(s)),
                        currentChapterIndex, TRUE, timers)

handleStop ==
  /\ UserMayAct /\ ButtonsEnabled
  /\ LET s == stop(Cur)
     IN ReaderStep(s, "handleStop", FALSE,
                   ttsStop(ttsCallbacks(ttsState, s.ev, positionOf(s))),
                   currentChapterIndex, FALSE, timers)

clickNextSentence ==
  /\ UserMayAct /\ ButtonsEnabled
  /\ TtsStep(nextSentence(Cur), "clickNextSentence", FALSE)

clickPreviousSentence ==
  /\ UserMayAct /\ ButtonsEnabled
  /\ TtsStep(previousSentence(Cur), "clickPreviousSentence", FALSE)

\* The user selects another chapter (previous, next, a bookmark).
goToChapter ==
  /\ UserMayAct
  /\ \E index \in 0..(NumChapters - 1) :
       /\ index # currentChapterIndex
       /\ ReaderStep(Cur, "goToChapter", FALSE, ttsState,
                     index, autoAdvanceRef, timers)

\* The condition under which the effect on [tts.isPlaying, tts.isPaused] advances.
advanceCondition ==
  /\ ~ttsIsPlaying /\ ~ttsIsPaused /\ autoAdvanceRef
  /\ ttsPosition.totalSentences > 0
  /\ ttsPosition.sentenceIndex >= ttsPosition.totalSentences - 1
  /\ currentChapterIndex < NumChapters - 1

advanceEffect ==
  /\ advanceEffectDue
  /\ IF advanceCondition
     THEN ReaderStep(Cur, "advanceEffect", FALSE, ttsState, currentChapterIndex + 1,
                     autoAdvanceRef, Append(timers, currentChapterIndex + 1))
     ELSE ReaderStep(Cur, "advanceEffect", FALSE, ttsState, currentChapterIndex,
                     autoAdvanceRef, timers)

\* The effect on [currentChapterIndex]: tts.stop()
stopEffect ==
  /\ stopEffectDue /\ ~advanceEffectDue
  /\ LET s == stop(Cur)
     IN ReaderStep(s, "stopEffect", FALSE,
                   ttsStop(ttsCallbacks(ttsState, s.ev, positionOf(s))),
                   currentChapterIndex, autoAdvanceRef, timers)

\* A deferred call runs: tts.play(chapters[nextIdx].content)
timerFires ==
  /\ ~EffectsDue /\ ReaderRoom /\ timers # <<>>
  /\ LET nextIdx == Head(timers)
         s == play(Cur, content(nextIdx), 0)
     IN ReaderStep(s, "timerFires", FALSE, ttsCallbacks(ttsState, s.ev, positionOf(s)),
                   currentChapterIndex, autoAdvanceRef, Tail(timers))

ReaderProviderStart ==
  /\ ~EffectsDue
  /\ queue # <<>> /\ queue[1].st = "queued" /\ ~synthPaused
  /\ TtsStep(onstart([Cur EXCEPT !.queue[1].st = "speaking"]), "start", FALSE)

ReaderProviderEnd ==
  /\ ~EffectsDue
  /\ queue # <<>> /\ queue[1].st = "speaking"
  /\ TtsStep(onend([Cur EXCEPT !.queue = Tail(@)]), "end", FALSE)

ReaderProviderError ==
  /\ ~EffectsDue
  /\ queue # <<>>
  /\ \E reason \in ErrorReasons :
       TtsStep(onerror([Cur EXCEPT !.queue = Tail(@), !.reason = reason], reason),
               "error", FALSE)

ReaderStaleEnd ==
  /\ ~EffectsDue
  /\ \E spoken \in BOOLEAN :
       /\ HasStale(spoken)
       /\ TtsStep(onend(dropStale(Cur, spoken)), "end", TRUE)

ReaderStaleError ==
  /\ ~EffectsDue
  /\ \E reason \in CancelReasons :
       /\ HasStale(reason = "interrupted")
       /\ TtsStep(onerror([dropStale(Cur, reason = "interrupted") EXCEPT !.reason = reason],
                          reason), "error", TRUE)

ReaderSpecInit ==
  /\ EngineInit
  /\ book \in Books
  /\ ReaderInit
  /\ seg = NoSegment
  /\ voices = <<>>

ReaderNext ==
  \/ handlePlayPause
  \/ handleStop
  \/ clickNextSentence
  \/ clickPreviousSentence
  \/ goToChapter
  \/ advanceEffect
  \/ stopEffect
  \/ timerFires
  \/ ReaderProviderStart
  \/ ReaderProviderEnd
  \/ ReaderProviderError
  \/ ReaderStaleEnd
  \/ ReaderStaleError

ReaderSpec == ReaderSpecInit /\ [][ReaderNext]_vars

ReaderTypeOK ==
  /\ book \in Books
  /\ ttsIsPlaying \in BOOLEAN /\ ttsIsPaused \in BOOLEAN
  /\ ttsPosition.sentenceIndex \in 0..(MaxTextLen + 1)
  /\ ttsPosition.totalSentences \in 0..MaxTextLen
  /\ currentChapterIndex \in 0..(NumChapters - 1)
  /\ autoAdvanceRef \in BOOLEAN
  /\ Len(timers) \in 0..(MaxTimers + 1)

\* C18: with auto-advance enabled and the current chapter not the last, the
\* natural completion of the chapter's last sentence does not make the playing
\* state the caller observes Idle (isPlaying false): playback passes to the next
\* chapter without an Idle state in between.
C18_AdvanceWithoutIdle ==
  [][(/\ last'.op = "end" /\ ~last'.stale /\ CountOnEnd(last'.ev) > 0
      /\ ttsIsPlaying /\ autoAdvanceRef
      /\ sentences = SplitTable[content(currentChapterIndex)]
      /\ currentChapterIndex < NumChapters - 1)
     => ttsIsPlaying']_vars

\* C19: the sequencer switches to the next chapter only in response to the
\* engine's end-of-text event, with auto-advance enabled and a chapter left;
\* after a stop or the stop issued on manual chapter navigation it does nothing.
C19_AdvanceOnlyOnEndOfText ==
  [][(last'.op = "advanceEffect" /\ currentChapterIndex' # currentChapterIndex)
     => (/\ CountOnEnd(last.ev) > 0
         /\ autoAdvanceRef
         /\ currentChapterIndex < NumChapters - 1)]_vars

\* C20: once the effects of a chapter switch have run, an engine that is
\* Playing or Paused holds the sentences of the currently selected chapter.
C20_QueueOfSelectedChapter ==
  (isPlaying /\ ~EffectsDue) => sentences = SplitTable[content(currentChapterIndex)]

\* C21: every change of the sentence being rendered is announced by
\* onSentenceChange, a change superseded by a further navigation included.  The
\* event is emitted when the sentence's utterance starts, so a command never
\* replaces the utterance of the current sentence before it has started.
C21_ChangeAnnounced ==
  [][(/\ last'.op \in {"play", "nextSentence", "previousSentence"}
      /\ last'.cancels > 0
      /\ isPlaying
      /\ queue # <<>> /\ queue[1].idx = currentIndex)
     => queue[1].st = "speaking"]_vars

\* Playback that is left to run: the provider reports no error of its own and
\* stop() is not called.
PlaybackNext ==
  \/ Play
  \/ Pause
  \/ Resume
  \/ ProviderStart
  \/ ProviderEnd
  \/ StaleEnd
  \/ StaleError

PlaybackSpec == Init /\ [][PlaybackNext]_vars

\* C27: playback never stalls silently: when the provider reports no error and
\* stop() is not called, an engine that is Playing, with no event of a
\* cancelled utterance still to come, has an utterance at the provider whose
\* end will carry it on to the end of the text.
C27_NeverStalled ==
  (isPlaying /\ ~isPaused /\ stale = 0) => queue # <<>>

\* C29: whenever a boundary event is handled the index is inside the queue, so
\* the handler reads an existing sentence and does not throw.
C29_BoundaryInsideQueue ==
  [][last'.op = "boundary" => (currentIndex < Len(sentences) /\ ~last'.threw)]_vars

\* ---------------------------------------------------------------------------
\* splitIntoSentences called on its own, on texts that also hold a second
\* terminator.
SegmentAlphabet == Alphabet \cup {"!"}

RECURSIVE SegmentTexts(_)
SegmentTexts(n) ==
  IF n = 0 THEN {<<>>}
  ELSE LET shorter == SegmentTexts(n - 1)
       IN shorter \cup {Append(t, c) : t \in {u \in shorter : Len(u) = n - 1},
                                       c \in SegmentAlphabet}

SegmentInit ==
  /\ EngineInit
  /\ book = <<>>
  /\ ReaderInit
  /\ voices = <<>>
  /\ \E text \in SegmentTexts(MaxSegmentLen) : seg = [text |-> text, done |-> FALSE, out |-> <<>>]

Segment ==
  /\ ~seg.done
  /\ seg' = [seg EXCEPT !.done = TRUE, !.out = splitIntoSentences(seg.text)]
  /\ UNCHANGED <<engineVars, providerVars, historyVars, readerVars, paramVars, homeVars>>

SegmentSpec == SegmentInit /\ [][Segment]_vars

\* C25: splitIntoSentences returns no sentence for an empty or whitespace-only
\* text, and every sentence it returns is non-empty and has no leading or
\* trailing whitespace.
C25_SentencesTrimmedNonEmpty ==
  seg.done =>
    /\ (Trim(seg.text) = <<>> => seg.out = <<>>)
    /\ \A i \in 1..Len(seg.out) :
         /\ seg.out[i] # <<>>
         /\ ~IsSpace(seg.out[i][1])
         /\ ~IsSpace(seg.out[i][Len(seg.out[i])])

\* A text with blanks before, between and after two sentences was segmented.
C25_Witness ==
  /\ seg.done
  /\ Len(seg.out) = 2
  /\ IsSpace(seg.text[1]) /\ IsSpace(seg.text[Len(seg.text)])

\* C26: a sentence ends only at a run of terminators followed by whitespace or
\* by the end of the text, so a text yields at most one sentence more than it
\* has terminators directly followed by whitespace.
C26_BoundaryNeedsWhitespace ==
  seg.done =>
    Len(seg.out) <= 1 + Cardinality({p \in 1..(Len(seg.text) - 1) :
                                       IsPunct(seg.text[p]) /\ IsSpace(seg.text[p + 1])})

\* ---------------------------------------------------------------------------
\* The engine with its playback parameters and the provider's voice catalog.
Alex == [name |-> <<"Alex">>, lang |-> <<"en", "US">>]

Amelie == [name |-> <<"Amelie">>, lang |-> <<"fr", "CA">>]

\* What getVoices() may return: nothing before the voices have loaded.
VoiceLists == {<<>>, <<Alex, Amelie>>, <<Amelie>>}

VoiceArgs == {<<"Alex">>, <<"fr">>, <<"de">>}

\* Arguments of setRate and setPitch: in range, out of range, not a number.
RateArgs == {NaN, Num(20), Num(31)}

PitchArgs == {NaN, Num(-1)}

ParamInit ==
  /\ EngineInit
  /\ book = <<>>
  /\ ReaderInit
  /\ seg = NoSegment
  /\ voices \in VoiceLists

\* A step of the engine with its parameters; nothing else is observed.
ParamStep(s, op, isStale, text) ==
  /\ ApplyEngine(s, op, isStale, text)
  /\ UNCHANGED <<countVars, readerVars, seg, homeVars>>

ParamPlay ==
  \E text \in ChapterTexts :
    /\ stale + Len(queue) <= MaxParamStale
    /\ ParamStep(play(Cur, text, 0), "play", FALSE, text)

ParamStop == ParamStep(stop(Cur), "stop", FALSE, <<>>)

SetRate == \E r \in RateArgs : ParamStep(setRate(Cur, r), "setRate", FALSE, <<>>)

SetPitch == \E p \in PitchArgs : ParamStep(setPitch(Cur, p), "setPitch", FALSE, <<>>)

SetVoice ==
  \E nameOrLang \in VoiceArgs : ParamStep(setVoice(Cur, nameOrLang), "setVoice", FALSE, <<>>)

SetVoiceByObject ==
  \E i \in 1..Len(voices) :
    ParamStep(setVoiceByObject(Cur, voices[i]), "setVoiceByObject", FALSE, <<>>)

\* The provider's voiceschanged event: its list of voices is another one.
VoicesChanged ==
  \E vs \in VoiceLists :
    /\ synth /\ vs # voices
    /\ ParamStep([Cur EXCEPT !.voices = vs], "voiceschanged", FALSE, <<>>)

ParamProviderStart ==
  /\ queue # <<>> /\ queue[1].st = "queued" /\ ~synthPaused
  /\ ParamStep(onstart([Cur EXCEPT !.queue[1].st = "speaking"]), "start", FALSE, <<>>)

ParamProviderEnd ==
  /\ queue # <<>> /\ queue[1].st = "speaking"
  /\ ParamStep(onend([Cur EXCEPT !.queue = Tail(@)]), "end", FALSE, <<>>)

\* The final event of a cancelled utterance: its end, or its error.
ParamStaleEvent ==
  \E spoken \in BOOLEAN :
    /\ HasStale(spoken)
    /\ \/ ParamStep(onend(dropStale(Cur, spoken)), "end", TRUE, <<>>)
       \/ LET reason == IF spoken THEN "interrupted" ELSE "canceled"
          IN ParamStep(onerror([dropStale(Cur, spoken) EXCEPT !.reason = reason], reason),
                       "error", TRUE, <<>>)

ParamNext ==
  \/ ParamPlay
  \/ ParamStop
  \/ SetRate
  \/ SetPitch
  \/ SetVoice
  \/ SetVoiceByObject
  \/ VoicesChanged
  \/ ParamProviderStart
  \/ ParamProviderEnd
  \/ ParamStaleEvent

ParamSpec == ParamInit /\ [][ParamNext]_vars

ParamTypeOK ==
  /\ rate \in {NaN} \cup {Num(v) : v \in MinRate..MaxRate}
  /\ pitch \in {NaN} \cup {Num(v) : v \in MinPitch..MaxPitch}
  /\ selectedVoice \in {<<>>, <<Alex>>, <<Amelie>>}
  /\ voices \in VoiceLists

Setters == {"setRate", "setPitch", "setVoice", "setVoiceByObject"}

\* C22: setRate, setPitch, setVoice and setVoiceByObject neither cancel nor
\* submit nor alter an utterance and leave the engine state and the index
\* alone; an utterance carries the rate, pitch and voice that are set when it
\* is submitted.
C22_ParamsFromNextSubmission ==
  [][/\ last'.op \in Setters =>
          /\ queue' = queue /\ stale' = stale
          /\ last'.speaks = 0 /\ last'.cancels = 0
          /\ isPlaying' = isPlaying /\ isPaused' = isPaused
          /\ currentIndex' = currentIndex /\ sentences' = sentences
          /\ currentUtterance' = currentUtterance
     /\ last'.speaks > 0 =>
          /\ last'.op \notin Setters
          /\ queue'[Len(queue')].rate = rate
          /\ queue'[Len(queue')].pitch = pitch
          /\ queue'[Len(queue')].voice = selectedVoice]_vars

\* A setter has just changed the rate while an utterance submitted with
\* another rate is being spoken.
C22_Witness ==
  /\ last.op = "setRate"
  /\ queue # <<>> /\ queue[1].st = "speaking"
  /\ queue[1].rate # rate

\* C23: whatever numbers setRate and setPitch were given, the rate lies in
\* [0.5, 3.0] and the pitch in [0.0, 2.0].
C23_ParamsInRange ==
  /\ ~rate.nan /\ rate.v >= MinRate /\ rate.v <= MaxRate
  /\ ~pitch.nan /\ pitch.v >= MinPitch /\ pitch.v <= MaxPitch

\* C24: an utterance is submitted with the selected voice only if one is
\* selected and the provider still lists it; otherwise with no voice of its
\* own, which is the provider's default.
C24_VoicePresentOrDefault ==
  [][last'.speaks > 0 =>
       queue'[Len(queue')].voice =
         (IF selectedVoice # <<>> /\ \E i \in 1..Len(voices) : voices[i] = selectedVoice[1]
          THEN selectedVoice ELSE <<>>)]_vars

\* C28: whenever the provider holds no utterance and no event of a cancelled
\* one is still to come, the state useTTS exposes is the state of its engine:
\* isPlaying, isPaused and the position.
C28_HookTracksEngine ==
  (queue = <<>> /\ stale = 0) =>
    /\ ttsIsPlaying = isPlaying
    /\ ttsIsPaused = isPaused
    /\ ttsPosition = getCurrentPosition

\* ---------------------------------------------------------------------------
\* Two engines on the one provider: the engine of the Home page's useTTS and
\* the engine of ReaderAudioBar's useTTS, which is the engine of the variables
\* sentences, currentIndex, isPlaying, isPaused and currentUtterance.

\* The Home page's engine with the shared provider.
HomeCur ==
  [Cur EXCEPT !.sentences = home.sentences, !.currentIndex = home.currentIndex,
              !.isPlaying = home.isPlaying, !.isPaused = home.isPaused,
              !.currentUtterance = home.currentUtterance]

\* The owners of the queue after engine who ran a handler on a queue owned as
\* before: cancel() empties the queue whoever submitted, speak() appends.
ownersAfter(s, who, before) ==
  LET kept == IF s.cancels > 0 THEN <<>> ELSE before
  IN kept \o [i \in 1..(Len(s.queue) - Len(kept)) |-> who]

\* A handler of ReaderAudioBar's engine ran and left it and the provider as s.
BarStep(s, op, view, before) ==
  /\ ApplyEngine(s, op, FALSE, <<>>)
  /\ home' = [home EXCEPT !.view = view]
  /\ owners' = ownersAfter(s, "bar", before)
  /\ UNCHANGED <<countVars, readerVars, seg>>

\* A handler of the Home page's engine ran and left it and the provider as s.
HomeStep(s, op, listening, before) ==
  /\ ApplyEngine([s EXCEPT !.sentences = sentences, !.currentIndex = currentIndex,
                           !.isPlaying = isPlaying, !.isPaused = isPaused,
                           !.currentUtterance = currentUtterance], op, FALSE, <<>>)
  /\ home' = [view |-> home.view, isListening |-> listening, sentences |-> s.sentences,
              currentIndex |-> s.currentIndex, isPlaying |-> s.isPlaying,
              isPaused |-> s.isPaused, currentUtterance |-> s.currentUtterance]
  /\ owners' = ownersAfter(s, "home", before)
  /\ UNCHANGED <<countVars, readerVars, seg>>

\* Two engines take commands while the provider holds at most MaxReaderStale
\* utterances, cancelled ones included.
handleStartListening ==
  /\ home.view = "detail" /\ ReaderRoom
  /\ \E chapterIndex \in 0..(NumChapters - 1) :
       HomeStep(play(setRate(HomeCur, Num(DefaultParam)), content(chapterIndex), 0),
                "handleStartListening", TRUE, owners)

handleStopListening ==
  /\ home.isListening /\ ReaderRoom
  /\ HomeStep(stop(HomeCur), "handleStopListening", FALSE, owners)

\* handleStartReading shows the reader; ReaderAudioBar mounts and its effect on
\* [currentChapterIndex] runs: tts.stop()
openReader ==
  /\ home.view = "detail" /\ ReaderRoom
  /\ BarStep(stop(Cur), "openReader", "reader", owners)

\* handleBack leaves the reader; useTTS's cleanup runs: engine.stop()
closeReader ==
  /\ home.view = "reader" /\ ReaderRoom
  /\ BarStep(stop(Cur), "closeReader", "detail", owners)

\* The reader's play button while its engine is Idle.
barPlay ==
  /\ home.view = "reader" /\ ~isPlaying /\ ReaderRoom
  /\ BarStep(play(Cur, content(currentChapterIndex), 0), "barPlay", home.view, owners)

\* The provider's events go to the engine that submitted the utterance.
TwoProviderStart ==
  /\ queue # <<>> /\ queue[1].st = "queued" /\ ~synthPaused
  /\ IF owners[1] = "bar"
     THEN BarStep(onstart([Cur EXCEPT !.queue[1].st = "speaking"]), "start", home.view, owners)
     ELSE HomeStep(onstart([HomeCur EXCEPT !.queue[1].st = "speaking"]), "start",
                   home.isListening, owners)

TwoProviderEnd ==
  /\ queue # <<>> /\ queue[1].st = "speaking"
  /\ IF owners[1] = "bar"
     THEN BarStep(onend([Cur EXCEPT !.queue = Tail(@)]), "end", home.view, Tail(owners))
     ELSE HomeStep(onend([HomeCur EXCEPT !.queue = Tail(@)]), "end",
                   home.isListening, Tail(owners))

\* The final event of a cancelled utterance, here its error event: onerror
\* changes no field of the engine it is delivered to, whichever that is.
TwoStaleError ==
  \E spoken \in BOOLEAN :
    /\ HasStale(spoken)
    /\ LET reason == IF spoken THEN "interrupted" ELSE "canceled"
       IN BarStep(onerror([dropStale(Cur, spoken) EXCEPT !.reason = reason], reason),
                  "error", home.view, owners)

TwoEngineInit ==
  /\ EngineInit
  /\ synth = TRUE
  /\ book \in Books
  /\ ReaderInit
  /\ seg = NoSegment
  /\ voices = <<>>

TwoEngineNext ==
  \/ handleStartListening
  \/ handleStopListening
  \/ openReader
  \/ closeReader
  \/ barPlay
  \/ TwoProviderStart
  \/ TwoProviderEnd
  \/ TwoStaleError

TwoEngineSpec == TwoEngineInit /\ [][TwoEngineNext]_vars

BarCommands == {"openReader", "closeReader", "barPlay"}

HomeCommands == {"handleStartListening", "handleStopListening"}

\* C30: the two engines share the provider, and a command on one of them never
\* cancels an utterance the other has submitted.
C30_NoCrossCancel ==
  [][/\ last'.op \in BarCommands =>
          \A i \in 1..Len(owners) : owners[i] = "home" => \E j \in 1..Len(owners') : owners'[j] = "home"
     /\ last'.op \in HomeCommands =>
          \A i \in 1..Len(owners) : owners[i] = "bar" => \E j \in 1..Len(owners') : owners'[j] = "bar"]_vars

====
